---- MODULE Spec2Model ----
(***************************************************************************)
(* Model of the code-review workflow of                                    *)
(* src/src/mastra/workflows/code-review-workflow.ts:                       *)
(*   parse-repo-url  ->  route-step  ->  generate-code-review              *)
(* JavaScript strings are TLA+ strings; the regular expressions and the    *)
(* string methods the code uses are operators that compute what the        *)
(* JavaScript engine computes (leftmost match, greedy groups).             *)
(***************************************************************************)
EXTENDS Integers, Sequences, FiniteSets, TLC

(***************************************************************************)
(* String methods                                                          *)
(***************************************************************************)

\* s[i] as a one-character string (1-based)
CharAt(s, i) == SubSeq(s, i, i)

\* String.prototype.startsWith
StartsWith(s, p) == Len(s) >= Len(p) /\ SubSeq(s, 1, Len(p)) = p

\* String.prototype.endsWith
EndsWith(s, p) == Len(s) >= Len(p) /\ SubSeq(s, Len(s) - Len(p) + 1, Len(s)) = p

\* the literal p occurs in s at position i
OccursAt(s, p, i) == i >= 1 /\ i + Len(p) - 1 <= Len(s) /\ SubSeq(s, i, i + Len(p) - 1) = p

\* repo.slice(0, -4)
SliceDropLast(s, n) == SubSeq(s, 1, Len(s) - n)

Min(S) == CHOOSE x \in S : \A y \in S : x <= y
Max(S) == CHOOSE x \in S : \A y \in S : x >= y

\* the characters from position i on that belong to the class ok, as far as
\* a greedy  [class]+  or  .+  can take them: the end of the longest run
RECURSIVE RunEnd(_, _, _)
RunEnd(s, i, stop) ==
  IF i > Len(s) \/ CharAt(s, i) \in stop THEN i - 1 ELSE RunEnd(s, i + 1, stop)

\* String.prototype.split(c) for a separator c of one character
RECURSIVE SplitOn(_, _)
SplitOn(s, c) ==
  LET e == RunEnd(s, 1, {c})
  IN  IF e = Len(s) THEN <<s>>
      ELSE <<SubSeq(s, 1, e)>> \o SplitOn(SubSeq(s, e + 2, Len(s)), c)

\* String.prototype.split('\n')
RECURSIVE SplitLines(_)
SplitLines(s) ==
  LET e == RunEnd(s, 1, {"\n"})
  IN  IF e = Len(s) THEN <<s>>
      ELSE <<SubSeq(s, 1, e)>> \o SplitLines(SubSeq(s, e + 2, Len(s)))

\* Array.prototype.join('\n'), used to build the inputs from lines
RECURSIVE JoinLines(_)
JoinLines(ls) ==
  IF Len(ls) = 0 THEN ""
  ELSE IF Len(ls) = 1 THEN ls[1]
  ELSE ls[1] \o "\n" \o JoinLines(Tail(ls))

(***************************************************************************)
(* parse-repo-url: the two URL patterns                                    *)
(***************************************************************************)

NoMatch == [ok |-> FALSE, g1 |-> "", g2 |-> ""]

\* characters the owner class [^\/] and the repo class [^\/\?#] exclude
OwnerStop == {"/"}
RepoStop == {"/", "?", "#"}

\* /github\.com\/([^\/]+)\/([^\/\?#]+)/ tried at position i of url
UrlMatchAt(url, i) ==
  LET o1 == i + Len("github.com/")
      o2 == RunEnd(url, o1, OwnerStop)
      r1 == o2 + 2
      r2 == RunEnd(url, r1, RepoStop)
  IN  IF /\ OccursAt(url, "github.com/", i)
         /\ o2 >= o1
         /\ OccursAt(url, "/", o2 + 1)
         /\ r2 >= r1
      THEN [ok |-> TRUE, g1 |-> SubSeq(url, o1, o2), g2 |-> SubSeq(url, r1, r2)]
      ELSE NoMatch

\* url.match(/github\.com\/([^\/]+)\/([^\/\?#]+)/): the leftmost match
UrlPattern1(url) ==
  LET starts == {i \in 1..Len(url) : UrlMatchAt(url, i).ok}
  IN  IF starts = {} THEN NoMatch ELSE UrlMatchAt(url, Min(starts))

\* /github\.com\/([^\/]+)\/([^\/\?#]+)\.git/ tried at position i: the repo
\* group gives characters back until the literal ".git" follows it
UrlGitMatchAt(url, i) ==
  LET o1 == i + Len("github.com/")
      o2 == RunEnd(url, o1, OwnerStop)
      r1 == o2 + 2
      r2 == RunEnd(url, r1, RepoStop)
      ends == {e \in r1..r2 : OccursAt(url, ".git", e + 1)}
  IN  IF /\ OccursAt(url, "github.com/", i)
         /\ o2 >= o1
         /\ OccursAt(url, "/", o2 + 1)
         /\ ends # {}
      THEN [ok |-> TRUE, g1 |-> SubSeq(url, o1, o2), g2 |-> SubSeq(url, r1, Max(ends))]
      ELSE NoMatch

\* url.match(/github\.com\/([^\/]+)\/([^\/\?#]+)\.git/)
UrlPattern2(url) ==
  LET starts == {i \in 1..Len(url) : UrlGitMatchAt(url, i).ok}
  IN  IF starts = {} THEN NoMatch ELSE UrlGitMatchAt(url, Min(starts))

\* mutant of StripGit: the suffix is kept
StripGitNever(repo) == repo

\* "Remove .git suffix if present"
StripGit(repo) == IF EndsWith(repo, ".git") THEN SliceDropLast(repo, 4) ELSE repo

\* the loop over the patterns: the first pattern that matches decides
\* owner and repo; both stay '' when none matches
ExtractOwnerRepo(url) ==
  LET m1 == UrlPattern1(url)
      m2 == UrlPattern2(url)
      m  == IF m1.ok THEN m1 ELSE m2
  IN  IF m.ok THEN [owner |-> m.g1, repo |-> StripGit(m.g2)]
      ELSE [owner |-> "", repo |-> ""]

(***************************************************************************)
(* route-step, diff path: the marker pattern                               *)
(***************************************************************************)

\* what the regular expression's  .  does not match (of the characters the
\* inputs are built from)
LineTerminators == {"\n", "\r"}

\* /diff --git a\/(.+) b\/(.+)/ tried at position i of line: the first group
\* is greedy, so it ends at the last " b/" that leaves the second group
\* at least one character
MarkerMatchAt(line, i) ==
  LET a1 == i + Len("diff --git a/")
      a2 == RunEnd(line, a1, LineTerminators)
      ps == {p \in (a1 + 1)..(a2 + 1) :
               /\ OccursAt(line, " b/", p)
               /\ p + 3 <= Len(line)
               /\ CharAt(line, p + 3) \notin LineTerminators}
      p  == Max(ps)
  IN  IF OccursAt(line, "diff --git a/", i) /\ ps # {}
      THEN [ok |-> TRUE, g1 |-> SubSeq(line, a1, p - 1),
            g2 |-> SubSeq(line, p + 3, RunEnd(line, p + 3, LineTerminators))]
      ELSE NoMatch

\* line.match(/diff --git a\/(.+) b\/(.+)/): the leftmost match
MarkerMatch(line) ==
  LET starts == {i \in 1..Len(line) : MarkerMatchAt(line, i).ok}
  IN  IF starts = {} THEN NoMatch ELSE MarkerMatchAt(line, Min(starts))

\* line.startsWith('diff --git')
IsMarkerLine(line) == StartsWith(line, "diff --git")

\* mutant of MarkerFile: the pre-image path, match[1]
MarkerFilePreImage(line) == LET m == MarkerMatch(line) IN IF m.ok THEN m.g1 ELSE ""

\* currentFile = match ? match[2] : ''
MarkerFile(line) == LET m == MarkerMatch(line) IN IF m.ok THEN m.g2 ELSE ""

\* mutant of IsAddition: the '+++' line counts too
IsAdditionAnyPlus(line) == StartsWith(line, "+")

\* line.startsWith('+') && !line.startsWith('+++')
IsAddition(line) == StartsWith(line, "+") /\ ~StartsWith(line, "+++")

\* else-branch: line.startsWith('-') && !line.startsWith('---')
IsDeletion(line) == ~IsAddition(line) /\ StartsWith(line, "-") /\ ~StartsWith(line, "---")

\* an optional value: <<>> is undefined / null, <<v>> is the value v
Some(v) == <<v>>
None == <<>>

\* JavaScript truthiness of a string-or-null: null and '' are falsy
Truthy(o) == o # None /\ o[1] # ""

\* a || b  on an optional string and a default
OrElse(o, d) == IF Truthy(o) THEN o[1] ELSE d

\* the record pushed to files for a section
FileChange(filename, adds, dels, patchText) ==
  [filename |-> filename, additions |-> adds, deletions |-> dels,
   changes |-> adds + dels, status |-> "modified", patch |-> Some(patchText)]

\* files.reduce((sum, file) => sum + file.additions, 0)
RECURSIVE SumAdditions(_)
SumAdditions(fs) == IF Len(fs) = 0 THEN 0 ELSE fs[1].additions + SumAdditions(Tail(fs))

\* files.reduce((sum, file) => sum + file.deletions, 0)
RECURSIVE SumDeletions(_)
SumDeletions(fs) == IF Len(fs) = 0 THEN 0 ELSE fs[1].deletions + SumDeletions(Tail(fs))

\* `${response.status}`: a number rendered in decimal
RECURSIVE NumToStr(_)
NumToStr(n) ==
  IF n < 10 THEN CharAt("0123456789", n + 1)
  ELSE NumToStr(n \div 10) \o CharAt("0123456789", (n % 10) + 1)

(***************************************************************************)
(* Bounds and input sets                                                   *)
(***************************************************************************)

\* longest diff text, in lines, of the parser specification
MaxLines == 4
\* longest commit list the API returns
MaxCommits == 2
\* most fragments the engine streams
MaxFragments == 2

\* all sequences over S of length at most n
RECURSIVE SeqsUpTo(_, _)
SeqsUpTo(S, n) ==
  IF n = 0 THEN {<<>>}
  ELSE LET shorter == SeqsUpTo(S, n - 1)
       IN  shorter \cup {Append(q, x) : q \in {r \in shorter : Len(r) = n - 1}, x \in S}

\* the header line of a file section, as git writes it
MkMarker(old, new) == "diff --git a/" \o old \o " b/" \o new

\* paths of the marker lines
Paths == {"x", "y", "z", "p q", "x b/y", "y b/z", "w b/"}

\* the lines diff texts are built from: header lines (two plain ones, one
\* that reads both as a/x -> b/"y b/z" and as a/"x b/y" -> b/z, one without
\* paths), added, removed and context lines, and the ---/+++ file lines
MarkerLines ==
  {MkMarker("x", "y"), MkMarker("p q", "p q"), MkMarker("x", "y b/z"), MkMarker("x", "w b/"),
   "diff --git"}
BodyLines == {"+a", "-b", " c", "+++ b/y", "--- a/x"}
LineSet == MarkerLines \cup BodyLines

\* diff texts of the parser specification
DiffTexts == {JoinLines(ls) : ls \in SeqsUpTo(LineSet, MaxLines)}

\* diff texts of the workflow specification
SampleDiffs ==
  { JoinLines(<<"diff --git a/src/a.js b/src/a.js", "--- a/src/a.js", "+++ b/src/a.js",
                "@@ -1,2 +1,3 @@", " x", "+y", "-z">>),
    JoinLines(<<"+a", "-b">>),
    "" }

\* optional metadata of a diff request: absent, empty, or a value
OptMeta(v) == {None, Some(""), Some(v)}

Owners == {"acme", "o"}
Repos == {"widgets", "a.b", "x.git", ".git"}
MkUrl(o, r) == "https://github.com/" \o o \o "/" \o r

OtherUrls ==
  { "not-a-github-url", "https://github.com/acme", "https://gitlab.com/acme/widgets",
    "https://github.com//widgets", "github.com/acme/widgets/tree/main",
    "https://github.com/acme/widgets?tab=readme" }

RepoUrls ==
  {MkUrl(o, r) : o \in Owners, r \in Repos}
    \cup {MkUrl(o, r) \o ".git" : o \in Owners, r \in Repos}
    \cup OtherUrls

\* a request of the workflow's input schema; a field that is not supplied
\* is None
Request(url, diff, msg, author, sha) ==
  [repoUrl |-> url, diffContent |-> diff, commitMessage |-> msg,
   author |-> author, commitSha |-> sha]

UrlRequests == {Request(Some(u), None, None, None, None) : u \in RepoUrls}

\* requests that carry both repoUrl and diffContent
BothRequests ==
  {Request(Some(u), Some(d), None, None, None) :
     u \in {MkUrl("acme", "widgets"), "not-a-github-url"}, d \in SampleDiffs}

DiffRequests ==
  {Request(None, Some(d), m, a, s) :
     d \in SampleDiffs, m \in OptMeta("fix"), a \in OptMeta("test-user"), s \in OptMeta("abc123")}

ParserRequests == {Request(None, Some(d), None, None, None) : d \in DiffTexts}

\* unified diffs as git writes them: for each file the header line, the
\* '--- a/<path>' and '+++ b/<path>' lines, a hunk header and the lines of
\* the hunk: added, removed and context lines, among them an added line
\* whose content is '++x' and a removed line whose content is '--x'
MaxHunkLines == 2
HunkHeader == "@@ -1 +1 @@"
HunkLines == {"+a", "-b", " c", "+++x", "---x"}
HunkBodies == SeqsUpTo(HunkLines, MaxHunkLines) \ {<<>>}
FileSection(f, body) ==
  <<MkMarker(f, f), "--- a/" \o f, "+++ b/" \o f, HunkHeader>> \o body
UnifiedDiffs ==
  {JoinLines(FileSection("x", b)) : b \in HunkBodies}
    \cup {JoinLines(FileSection("x", b) \o FileSection("y", c)) : b \in HunkBodies, c \in HunkBodies}
UnifiedRequests == {Request(None, Some(d), None, None, None) : d \in UnifiedDiffs}

\* The string computations of the steps on the inputs of the workflow
\* specification, each computed once: a step looks the value up where it is
\* tabulated and computes it where it is not

\* the owner and repo the patterns extract from each URL
OwnerRepoOf == [u \in RepoUrls |-> ExtractOwnerRepo(u)]
OwnerRepo(url) == IF url \in RepoUrls THEN OwnerRepoOf[url] ELSE ExtractOwnerRepo(url)

\* diffContent.split('\n')
DiffLinesOf == [d \in SampleDiffs |-> SplitLines(d)]
DiffLines(d) == IF d \in SampleDiffs THEN DiffLinesOf[d] ELSE SplitLines(d)

\* the lines of the tabulated texts
SampleLines == UNION {{DiffLinesOf[d][i] : i \in 1..Len(DiffLinesOf[d])} : d \in SampleDiffs}

\* match ? match[2] : ''
MarkerFileOf == [l \in SampleLines |-> MarkerFile(l)]
CurrentFileAt(line) == IF line \in SampleLines THEN MarkerFileOf[line] ELSE MarkerFile(line)

\* what the GitHub API can answer
Shas == {"s1", "s2"}
FailureResponses ==
  { [kind |-> "status", ok |-> FALSE, status |-> 404, statusText |-> "Not Found"],
    [kind |-> "status", ok |-> FALSE, status |-> 403, statusText |-> "Forbidden"],
    [kind |-> "reject", ok |-> FALSE, status |-> 0, statusText |-> "fetch failed"] }

\* a response with response.ok, and the value response.json() gives
OkResponse(body) ==
  [kind |-> "ok", ok |-> TRUE, status |-> 200, statusText |-> "OK", body |-> body]

\* GET /repos/{owner}/{repo}/commits: an element of the body of a success
\* response
ApiCommit(h) ==
  [sha |-> h,
   commit |-> [message |-> "msg", author |-> [name |-> "Mona", date |-> "2024-01-01T00:00:00Z"]],
   author |-> Some("octocat")]

CommitLists == SeqsUpTo({ApiCommit(h) : h \in Shas}, MaxCommits)

ApiFile(name, a, d) ==
  [filename |-> name, additions |-> a, deletions |-> d, changes |-> a + d,
   status |-> "added", patch |-> None, sha |-> "blob", raw_url |-> "raw"]
ApiFileLists == {<<>>, <<ApiFile("f.js", 1, 0)>>, <<ApiFile("f.js", 1, 0), ApiFile("g.js", 0, 1)>>}
ApiStats == {[additions |-> a, deletions |-> d, total |-> t] : a \in 0..1, d \in 0..1, t \in 0..2}
ApiLogins == {None, Some("octocat")}

\* GET /repos/{owner}/{repo}/commits/{sha}: the body of a success response
CommitDetailBodies(sha) ==
  {[sha |-> sha,
    commit |-> [message |-> "msg", author |-> [name |-> "Mona", date |-> "2024-01-01T00:00:00Z"]],
    author |-> l, stats |-> st, files |-> fl] :
     l \in ApiLogins, st \in ApiStats, fl \in ApiFileLists}

\* text fragments of the engine's stream
Fragments == {"a", "b"}

\* messages of the errors the engine's stream can throw
EngineErrors == {"stream error"}

(***************************************************************************)
(* State                                                                   *)
(***************************************************************************)

VARIABLES
  request,      \* the workflow's input
  pc,           \* where the run is
  stepOut,      \* output of parse-repo-url, input of route-step (None before)
  diffLines,    \* diffContent.split('\n') (None until the diff path runs)
  idx,          \* position of the for-of loop in diffLines
  currentFile,  \* null (None), '' or the file of the open section
  additions,
  deletions,
  patch,
  files,
  httpLog,      \* URLs fetched, in order
  responses,    \* what the fetches were answered, in order
  latestCommit, \* commits[0] of the commit list (None before)
  commitDetail, \* output of route-step (None before)
  engineCalls,  \* number of agent.stream calls
  received,     \* the fragments the engine's stream has yielded, in order
  reviewText,   \* the accumulator of generate-code-review
  stdout,       \* what process.stdout.write received
  result,       \* the workflow's output (None unless it succeeded)
  error,        \* message of the error the run failed with (None otherwise)
  failedIn      \* the statement that threw it (None otherwise)

vars == <<request, pc, stepOut, diffLines, idx, currentFile, additions, deletions,
          patch, files, httpLog, responses, latestCommit, commitDetail, engineCalls,
          received, reviewText, stdout, result, error, failedIn>>

scanVars == <<diffLines, idx, currentFile, additions, deletions, patch, files>>
fetchVars == <<httpLog, responses, latestCommit>>
streamVars == <<engineCalls, received, reviewText, stdout, result>>
errVars == <<error, failedIn>>

InitWith(requests) ==
  /\ request \in requests
  /\ pc = "parse-repo-url"
  /\ stepOut = None
  /\ diffLines = None
  /\ idx = 0
  /\ currentFile = None
  /\ additions = 0
  /\ deletions = 0
  /\ patch = ""
  /\ files = <<>>
  /\ httpLog = <<>>
  /\ responses = <<>>
  /\ latestCommit = None
  /\ commitDetail = None
  /\ engineCalls = 0
  /\ received = <<>>
  /\ reviewText = ""
  /\ stdout = ""
  /\ result = None
  /\ error = None
  /\ failedIn = None

Init == InitWith(UrlRequests \cup BothRequests \cup DiffRequests)

\* the statement named by stage throws: the run ends with the error
Fail(stage, msg) == pc' = "failed" /\ error' = Some(msg) /\ failedIn' = Some(stage)

(***************************************************************************)
(* parse-repo-url                                                          *)
(***************************************************************************)

\* mutant of HasRepoUrl: a request that carries diffContent is a diff request
HasRepoUrlOnly(inputData) == inputData.repoUrl # None /\ inputData.diffContent = None

\* 'repoUrl' in inputData
HasRepoUrl(inputData) == inputData.repoUrl # None

\* mutant of InvalidOwnerRepo: the check is missing
InvalidOwnerRepoNever(r) == FALSE

\* !owner || !repo
InvalidOwnerRepo(r) == r.owner = "" \/ r.repo = ""

\* `Invalid GitHub URL format: ${inputData.repoUrl}`
InvalidUrlMessage(url) == "Invalid GitHub URL format: " \o url

\* the value the step returns for a repoUrl request
RepoInfo(r, url) ==
  [type |-> None, owner |-> r.owner, repo |-> r.repo, url |-> url, diffContent |-> "",
   commitMessage |-> None, author |-> None, commitSha |-> None]

\* the value the step returns for a diff request
DiffInfo(inputData) ==
  [type |-> Some("diff"), owner |-> "", repo |-> "", url |-> "",
   diffContent |-> inputData.diffContent[1], commitMessage |-> inputData.commitMessage,
   author |-> inputData.author, commitSha |-> inputData.commitSha]

ParseRepoUrl ==
  /\ pc = "parse-repo-url"
  /\ IF HasRepoUrl(request)
     THEN LET url == request.repoUrl[1]
              r   == OwnerRepo(url)
          IN  IF InvalidOwnerRepo(r)
              THEN Fail("parse-repo-url", InvalidUrlMessage(url)) /\ UNCHANGED stepOut
              ELSE pc' = "route-step" /\ stepOut' = Some(RepoInfo(r, url)) /\ UNCHANGED errVars
     ELSE pc' = "route-step" /\ stepOut' = Some(DiffInfo(request)) /\ UNCHANGED errVars
  /\ UNCHANGED <<request, scanVars, fetchVars, commitDetail, streamVars>>

(***************************************************************************)
(* route-step, diff path                                                   *)
(***************************************************************************)

\* 'type' in inputData && inputData.type === 'diff'
IsDiffInput(inputData) == inputData.type # None /\ inputData.type[1] = "diff"

\* patch += line + '\n'
AppendLine(p, line) == p \o line \o "\n"

\* the push a marker line does when a section is open
FilesAtMarker(fs, cur, adds, dels, p) ==
  IF Truthy(cur) THEN Append(fs, FileChange(cur[1], adds, dels, p)) ELSE fs

\* mutant of ResetAtMarker: the counter is not reset
ResetAtMarkerKeep(n) == n

\* the counter a marker line resets
ResetAtMarker(n) == 0

\* mutant of ResetPatchAtMarker: the patch text is not reset
ResetPatchAtMarkerKeep(p) == p

\* the patch text a marker line resets
ResetPatchAtMarker(p) == ""

\* additions++ / deletions++
CountAddition(n, line) == IF IsAddition(line) THEN n + 1 ELSE n
CountDeletion(n, line) == IF IsDeletion(line) THEN n + 1 ELSE n

\* mutant of FilesAtEnd: the push is not guarded by currentFile
FilesAtEndUnguarded(fs, cur, adds, dels, p) ==
  Append(fs, FileChange(OrElse(cur, ""), adds, dels, p))

\* the push after the loop
FilesAtEnd(fs, cur, adds, dels, p) ==
  IF Truthy(cur) THEN Append(fs, FileChange(cur[1], adds, dels, p)) ELSE fs

\* the CommitDetail the diff path returns
DiffCommitDetail(inputData, fs) ==
  LET totalAdditions == SumAdditions(fs)
      totalDeletions == SumDeletions(fs)
  IN  [sha |-> OrElse(inputData.commitSha, "direct-diff"),
       message |-> OrElse(inputData.commitMessage, "Direct diff review"),
       author |-> OrElse(inputData.author, "Unknown"),
       date |-> "now",
       url |-> "",
       stats |-> [additions |-> totalAdditions, deletions |-> totalDeletions,
                  total |-> totalAdditions + totalDeletions],
       files |-> fs]

\* the diff path starts: split the text, initialise the loop
RouteDiffStart ==
  /\ pc = "route-step"
  /\ IsDiffInput(stepOut[1])
  /\ pc' = "scan"
  /\ diffLines' = Some(DiffLines(stepOut[1].diffContent))
  /\ idx' = 1
  /\ currentFile' = None
  /\ additions' = 0
  /\ deletions' = 0
  /\ patch' = ""
  /\ files' = <<>>
  /\ UNCHANGED <<request, stepOut, fetchVars, commitDetail, streamVars, errVars>>

\* one iteration of  for (const line of diffLines)
ScanLine ==
  /\ pc = "scan"
  /\ idx <= Len(diffLines[1])
  /\ LET line   == diffLines[1][idx]
         marker == IsMarkerLine(line)
         adds0  == IF marker THEN ResetAtMarker(additions) ELSE additions
         dels0  == IF marker THEN ResetAtMarker(deletions) ELSE deletions
         patch0 == IF marker THEN ResetPatchAtMarker(patch) ELSE patch
     IN  /\ files' = IF marker
                     THEN FilesAtMarker(files, currentFile, additions, deletions, patch)
                     ELSE files
         /\ currentFile' = IF marker THEN Some(CurrentFileAt(line)) ELSE currentFile
         /\ additions' = CountAddition(adds0, line)
         /\ deletions' = CountDeletion(dels0, line)
         /\ patch' = AppendLine(patch0, line)
  /\ idx' = idx + 1
  /\ UNCHANGED <<request, pc, stepOut, diffLines, fetchVars, commitDetail, streamVars, errVars>>

\* mutant of ScanEnd: the test for the end of the loop is off by one
ScanEndOffByOne ==
  /\ pc = "scan"
  /\ idx > Len(diffLines[1]) + 1
  /\ LET fs == FilesAtEnd(files, currentFile, additions, deletions, patch)
     IN  /\ files' = fs
         /\ commitDetail' = Some(DiffCommitDetail(stepOut[1], fs))
  /\ pc' = "generate-code-review"
  /\ UNCHANGED <<request, stepOut, diffLines, idx, currentFile, additions, deletions,
                 patch, fetchVars, streamVars, errVars>>

\* after the loop: the last section, the totals, the result
ScanEnd ==
  /\ pc = "scan"
  /\ idx > Len(diffLines[1])
  /\ LET fs == FilesAtEnd(files, currentFile, additions, deletions, patch)
     IN  /\ files' = fs
         /\ commitDetail' = Some(DiffCommitDetail(stepOut[1], fs))
  /\ pc' = "generate-code-review"
  /\ UNCHANGED <<request, stepOut, diffLines, idx, currentFile, additions, deletions,
                 patch, fetchVars, streamVars, errVars>>

(***************************************************************************)
(* route-step, GitHub path                                                 *)
(***************************************************************************)

\* `https://api.github.com/repos/${owner}/${repo}/commits?per_page=5`
CommitsUrl(owner, repo) ==
  "https://api.github.com/repos/" \o owner \o "/" \o repo \o "/commits?per_page=5"

\* `https://api.github.com/repos/${owner}/${repo}/commits/${sha}`
DetailUrl(owner, repo, sha) ==
  "https://api.github.com/repos/" \o owner \o "/" \o repo \o "/commits/" \o sha

\* mutant of ResponseError: the status and the reason are left out
ResponseErrorNoStatus(r) ==
  IF r.kind = "reject" THEN r.statusText ELSE "GitHub API error"

\* the message of what the try block throws on a response that is no
\* success: the rejection of fetch, or `GitHub API error: ${status} ${statusText}`
ResponseError(r) ==
  IF r.kind = "reject" THEN r.statusText
  ELSE "GitHub API error: " \o NumToStr(r.status) \o " " \o r.statusText

\* the TypeError of  latestCommit.sha  when commits[0] is undefined
UndefinedShaError == "Cannot read properties of undefined (reading 'sha')"

\* the catch block: `Failed to fetch commit details: ${error.message}`
WrapFetchError(msg) == "Failed to fetch commit details: " \o msg

\* files.map(...): the six fields of a file
ReshapeFile(f) ==
  [filename |-> f.filename, additions |-> f.additions, deletions |-> f.deletions,
   changes |-> f.changes, status |-> f.status, patch |-> f.patch]

ReshapeFiles(fs) == [i \in 1..Len(fs) |-> ReshapeFile(fs[i])]

\* the CommitDetail the GitHub path returns
GithubCommitDetail(inputData, body) ==
  [sha |-> body.sha,
   message |-> body.commit.message,
   author |-> OrElse(body.author, body.commit.author.name),
   date |-> body.commit.author.date,
   url |-> "https://github.com/" \o inputData.owner \o "/" \o inputData.repo
             \o "/commit/" \o body.sha,
   stats |-> body.stats,
   files |-> ReshapeFiles(body.files)]

\* mutant of LatestCommit: the last element of the list
LatestCommitLast(commits) == commits[Len(commits)]

\* commits[0]
LatestCommit(commits) == commits[1]

\* the GitHub path starts: GET the commit list
RouteFetchCommits ==
  /\ pc = "route-step"
  /\ ~IsDiffInput(stepOut[1])
  /\ httpLog' = Append(httpLog, CommitsUrl(stepOut[1].owner, stepOut[1].repo))
  /\ pc' = "await-commits"
  /\ UNCHANGED <<request, stepOut, scanVars, responses, latestCommit, commitDetail, streamVars, errVars>>

\* mutant of CommitsFailure: the first failure is answered by asking again
CommitsFailureRetry ==
  /\ pc = "await-commits"
  /\ \E r \in FailureResponses :
       /\ responses' = Append(responses, r)
       /\ IF Len(httpLog) < 2
          THEN /\ httpLog' = Append(httpLog, httpLog[1])
               /\ UNCHANGED <<pc, errVars>>
          ELSE /\ Fail("commit-list", WrapFetchError(ResponseError(r)))
               /\ UNCHANGED httpLog
  /\ UNCHANGED <<request, stepOut, scanVars, latestCommit, commitDetail, streamVars>>

\* the commit-list call fails (no success status, or fetch rejects)
CommitsFailure ==
  /\ pc = "await-commits"
  /\ \E r \in FailureResponses :
       /\ responses' = Append(responses, r)
       /\ Fail("commit-list", WrapFetchError(ResponseError(r)))
  /\ UNCHANGED <<request, stepOut, scanVars, httpLog, latestCommit, commitDetail, streamVars>>

\* the commit-list call succeeds: take commits[0], GET its detail
CommitsSuccess ==
  /\ pc = "await-commits"
  /\ \E commits \in CommitLists :
       /\ responses' = Append(responses, OkResponse(commits))
       /\ IF Len(commits) = 0
          THEN /\ Fail("commit-list", WrapFetchError(UndefinedShaError))
               /\ UNCHANGED <<httpLog, latestCommit>>
          ELSE /\ latestCommit' = Some(LatestCommit(commits))
               /\ httpLog' = Append(httpLog,
                    DetailUrl(stepOut[1].owner, stepOut[1].repo, LatestCommit(commits).sha))
               /\ pc' = "await-detail"
               /\ UNCHANGED errVars
  /\ UNCHANGED <<request, stepOut, scanVars, commitDetail, streamVars>>

\* mutant of DetailFailure: the error is recorded and the run goes on to
\* generate-code-review
DetailFailureContinue ==
  /\ pc = "await-detail"
  /\ \E r \in FailureResponses :
       /\ responses' = Append(responses, r)
       /\ error' = Some(WrapFetchError(ResponseError(r)))
       /\ failedIn' = Some("commit-detail")
  /\ pc' = "generate-code-review"
  /\ UNCHANGED <<request, stepOut, scanVars, httpLog, latestCommit, commitDetail, streamVars>>

\* the commit-detail call fails
DetailFailure ==
  /\ pc = "await-detail"
  /\ \E r \in FailureResponses :
       /\ responses' = Append(responses, r)
       /\ Fail("commit-detail", WrapFetchError(ResponseError(r)))
  /\ UNCHANGED <<request, stepOut, scanVars, httpLog, latestCommit, commitDetail, streamVars>>

\* the commit-detail call succeeds: reshape the body
DetailSuccess ==
  /\ pc = "await-detail"
  /\ \E body \in CommitDetailBodies(latestCommit[1].sha) :
       /\ responses' = Append(responses, OkResponse(body))
       /\ commitDetail' = Some(GithubCommitDetail(stepOut[1], body))
  /\ pc' = "generate-code-review"
  /\ UNCHANGED <<request, stepOut, scanVars, httpLog, latestCommit, streamVars, errVars>>

(***************************************************************************)
(* generate-code-review                                                    *)
(***************************************************************************)

\* mastra?.getAgent('codeReviewAgent') gives no agent
AgentNotFound ==
  /\ pc = "generate-code-review"
  /\ Fail("agent", "Code Review agent not found")
  /\ UNCHANGED <<request, stepOut, scanVars, fetchVars, commitDetail, streamVars>>

\* agent.stream([...]) is called with the prompt
StreamOpen ==
  /\ pc = "generate-code-review"
  /\ engineCalls' = engineCalls + 1
  /\ pc' = "stream"
  /\ UNCHANGED <<request, stepOut, scanVars, fetchVars, commitDetail, received,
                 reviewText, stdout, result, errVars>>

\* mutant of Accumulate: the fragment is put in front
AccumulatePrepend(text, chunk) == chunk \o text

\* reviewText += chunk, and what process.stdout.write(chunk) adds to the
\* output
Accumulate(text, chunk) == text \o chunk

\* one iteration of  for await (const chunk of response.textStream)
StreamChunk ==
  /\ pc = "stream"
  /\ Len(received) < MaxFragments
  /\ \E chunk \in Fragments :
       /\ received' = Append(received, chunk)
       /\ stdout' = Accumulate(stdout, chunk)
       /\ reviewText' = Accumulate(reviewText, chunk)
  /\ UNCHANGED <<request, pc, stepOut, scanVars, fetchVars, commitDetail, engineCalls,
                 result, errVars>>

\* the stream ends: return { review: reviewText }
StreamEnd ==
  /\ pc = "stream"
  /\ result' = Some([review |-> reviewText])
  /\ pc' = "done"
  /\ UNCHANGED <<request, stepOut, scanVars, fetchVars, commitDetail, engineCalls,
                 received, reviewText, stdout, errVars>>

\* mutant of StreamFailure: the error is caught and what was accumulated is
\* returned
StreamFailurePartial ==
  /\ pc = "stream"
  /\ \E e \in EngineErrors : error' = Some(e) /\ failedIn' = Some("stream")
  /\ result' = Some([review |-> reviewText])
  /\ pc' = "done"
  /\ UNCHANGED <<request, stepOut, scanVars, fetchVars, commitDetail, engineCalls,
                 received, reviewText, stdout>>

\* the stream throws: nothing catches it, so the step, and the run, fail
\* with the engine's error
StreamFailure ==
  /\ pc = "stream"
  /\ \E e \in EngineErrors : Fail("stream", e)
  /\ UNCHANGED <<request, stepOut, scanVars, fetchVars, commitDetail, streamVars>>

(***************************************************************************)
(* The workflow of src/unnamed/part_001: an earlier version, for repoUrl   *)
(* requests only, with the two fetches in steps of their own:              *)
(*   parse-repo-url -> fetch-recent-commits -> analyze-latest-commit       *)
(*     -> generate-code-review                                             *)
(* analyze-latest-commit takes owner and repo from the url of the commit.  *)
(***************************************************************************)

\* parse-repo-url of that version: the same patterns and the same check
ParseRepoUrlSteps ==
  /\ pc = "parse-repo-url"
  /\ HasRepoUrl(request)
  /\ LET url == request.repoUrl[1]
         r   == OwnerRepo(url)
     IN  IF InvalidOwnerRepo(r)
         THEN Fail("parse-repo-url", InvalidUrlMessage(url)) /\ UNCHANGED stepOut
         ELSE /\ pc' = "fetch-recent-commits"
              /\ stepOut' = Some([owner |-> r.owner, repo |-> r.repo, url |-> url])
              /\ UNCHANGED errVars
  /\ UNCHANGED <<request, scanVars, fetchVars, commitDetail, streamVars>>

\* `https://github.com/${owner}/${repo}/commit/${sha}`
CommitPageUrl(owner, repo, sha) ==
  "https://github.com/" \o owner \o "/" \o repo \o "/commit/" \o sha

\* commits.map(commit => ({sha, message, author, date, url}))
CommitSummary(inputData, c) ==
  [sha |-> c.sha, message |-> c.commit.message,
   author |-> OrElse(c.author, c.commit.author.name),
   date |-> c.commit.author.date,
   url |-> CommitPageUrl(inputData.owner, inputData.repo, c.sha)]

CommitSummaries(inputData, commits) ==
  [i \in 1..Len(commits) |-> CommitSummary(inputData, commits[i])]

\* `Failed to fetch commits: ${error.message}`
WrapCommitsError(msg) == "Failed to fetch commits: " \o msg

\* `Failed to fetch commit detail: ${error.message}`
WrapDetailError(msg) == "Failed to fetch commit detail: " \o msg

\* urlParts[i] in a template literal (0-based i): the part, or "undefined"
UrlPart(urlParts, i) == IF i + 1 <= Len(urlParts) THEN urlParts[i + 1] ELSE "undefined"

\* latestCommit.url.split('/'), urlParts[3] and urlParts[4]
OwnerRepoOfUrl(url) ==
  LET urlParts == SplitOn(url, "/")
  IN  [owner |-> UrlPart(urlParts, 3), repo |-> UrlPart(urlParts, 4)]

\* fetch-recent-commits: GET the commit list
FetchRecentCommits ==
  /\ pc = "fetch-recent-commits"
  /\ httpLog' = Append(httpLog, CommitsUrl(stepOut[1].owner, stepOut[1].repo))
  /\ pc' = "await-recent-commits"
  /\ UNCHANGED <<request, stepOut, scanVars, responses, latestCommit, commitDetail,
                 streamVars, errVars>>

\* the commit-list call fails
RecentCommitsFailure ==
  /\ pc = "await-recent-commits"
  /\ \E r \in FailureResponses :
       /\ responses' = Append(responses, r)
       /\ Fail("commit-list", WrapCommitsError(ResponseError(r)))
  /\ UNCHANGED <<request, stepOut, scanVars, httpLog, latestCommit, commitDetail, streamVars>>

\* the commit-list call succeeds: the step returns the summaries
RecentCommitsSuccess ==
  /\ pc = "await-recent-commits"
  /\ \E commits \in CommitLists :
       /\ responses' = Append(responses, OkResponse(commits))
       /\ stepOut' = Some([commits |-> CommitSummaries(stepOut[1], commits)])
  /\ pc' = "analyze-latest-commit"
  /\ UNCHANGED <<request, scanVars, httpLog, latestCommit, commitDetail, streamVars, errVars>>

\* analyze-latest-commit: no commit is an error; else GET the detail of
\* commits[0] at the owner and repo of its url
AnalyzeLatestCommit ==
  /\ pc = "analyze-latest-commit"
  /\ LET commits == stepOut[1].commits
     IN  IF Len(commits) = 0
         THEN /\ Fail("analyze-latest-commit", "No commits found")
              /\ UNCHANGED <<httpLog, latestCommit>>
         ELSE LET latest == LatestCommit(commits)
                  at     == OwnerRepoOfUrl(latest.url)
              IN  /\ latestCommit' = Some(latest)
                  /\ httpLog' = Append(httpLog, DetailUrl(at.owner, at.repo, latest.sha))
                  /\ pc' = "await-commit-detail"
                  /\ UNCHANGED errVars
  /\ UNCHANGED <<request, stepOut, scanVars, responses, commitDetail, streamVars>>

\* the commit-detail call fails
CommitDetailFailure ==
  /\ pc = "await-commit-detail"
  /\ \E r \in FailureResponses :
       /\ responses' = Append(responses, r)
       /\ Fail("commit-detail", WrapDetailError(ResponseError(r)))
  /\ UNCHANGED <<request, stepOut, scanVars, httpLog, latestCommit, commitDetail, streamVars>>

\* the commit-detail call succeeds: reshape the body
CommitDetailSuccess ==
  /\ pc = "await-commit-detail"
  /\ \E body \in CommitDetailBodies(latestCommit[1].sha) :
       /\ responses' = Append(responses, OkResponse(body))
       /\ commitDetail' = Some(GithubCommitDetail(OwnerRepoOfUrl(latestCommit[1].url), body))
  /\ pc' = "generate-code-review"
  /\ UNCHANGED <<request, stepOut, scanVars, httpLog, latestCommit, streamVars, errVars>>

(***************************************************************************)
(* The agent tool parseRepoUrlTool (src/unnamed/part_003) and the version  *)
(* of the workflow whose steps call the tools of the agent                 *)
(* (src/unnamed/part_000).  getCommitsTool and getCommitDetailTool issue   *)
(* the requests of fetch-recent-commits and analyze-latest-commit above,   *)
(* with the same messages, so that version continues with those steps.    *)
(***************************************************************************)

\* parseRepoUrlTool.execute: the first pattern that matches returns owner
\* and repo with the .git suffix removed; the tool throws only when no
\* pattern matches
ParseRepoUrlTool(url) ==
  LET m1 == UrlPattern1(url)
      m2 == UrlPattern2(url)
      m  == IF m1.ok THEN m1 ELSE m2
  IN  IF m.ok THEN [threw |-> FALSE, owner |-> m.g1, repo |-> StripGit(m.g2)]
      ELSE [threw |-> TRUE, owner |-> "", repo |-> ""]

ParseRepoUrlToolOf == [u \in RepoUrls |-> ParseRepoUrlTool(u)]

\* parse-repo-url of the version that calls the tools: the agent is looked
\* up, then the tool is executed on inputData.repoUrl
ParseRepoUrlDelegated ==
  /\ pc = "parse-repo-url"
  /\ HasRepoUrl(request)
  /\ \/ Fail("agent", "Code Review agent not found") /\ UNCHANGED stepOut
     \/ LET url    == request.repoUrl[1]
            parsed == ParseRepoUrlToolOf[url]
        IN  IF parsed.threw
            THEN Fail("parse-repo-url", InvalidUrlMessage(url)) /\ UNCHANGED stepOut
            ELSE /\ pc' = "fetch-recent-commits"
                 /\ stepOut' = Some([owner |-> parsed.owner, repo |-> parsed.repo,
                                     url |-> url])
                 /\ UNCHANGED errVars
  /\ UNCHANGED <<request, scanVars, fetchVars, commitDetail, streamVars>>

(***************************************************************************)
(* Specifications                                                          *)
(***************************************************************************)

Next ==
  \/ ParseRepoUrl
  \/ RouteDiffStart
  \/ ScanLine
  \/ ScanEnd
  \/ RouteFetchCommits
  \/ CommitsFailure
  \/ CommitsSuccess
  \/ DetailFailure
  \/ DetailSuccess
  \/ AgentNotFound
  \/ StreamOpen
  \/ StreamChunk
  \/ StreamEnd
  \/ StreamFailure

\* the workflow, on requests of both shapes
Spec == Init /\ [][Next]_vars

\* the code of a step that is ready to run is run: the runtime executes the
\* workflow's steps and the continuation of every await that has settled
StepsRun ==
  WF_vars(ParseRepoUrl \/ RouteDiffStart \/ ScanLine \/ ScanEnd \/ RouteFetchCommits
            \/ AgentNotFound \/ StreamOpen)

\* each HTTP call is answered or fails
FetchesSettle ==
  /\ WF_vars(CommitsFailure \/ CommitsSuccess)
  /\ WF_vars(DetailFailure \/ DetailSuccess)

\* the engine's stream yields its next fragment, ends or throws; it yields
\* at most MaxFragments fragments
StreamSettles == WF_vars(StreamChunk \/ StreamEnd \/ StreamFailure)

\* the workflow with the collaborators that answer
SpecLive == Init /\ [][Next]_vars /\ StepsRun /\ FetchesSettle /\ StreamSettles

\* the diff parser alone: parse-repo-url and the diff path of route-step on
\* every diff text of at most MaxLines lines
InitDiff == InitWith(ParserRequests)

NextDiff ==
  \/ ParseRepoUrl
  \/ RouteDiffStart
  \/ ScanLine
  \/ ScanEnd

SpecDiff == InitDiff /\ [][NextDiff]_vars

\* the parser on every unified diff of the model
InitUnified == InitWith(UnifiedRequests)

SpecUnified == InitUnified /\ [][NextDiff]_vars

\* the repoUrl requests, in both versions of the workflow: the first step
\* taken decides which version runs
InitFetch == InitWith(UrlRequests)

NextFetch ==
  \/ ParseRepoUrl
  \/ RouteFetchCommits
  \/ CommitsFailure
  \/ CommitsSuccess
  \/ DetailFailure
  \/ DetailSuccess
  \/ ParseRepoUrlSteps
  \/ ParseRepoUrlDelegated
  \/ FetchRecentCommits
  \/ RecentCommitsFailure
  \/ RecentCommitsSuccess
  \/ AnalyzeLatestCommit
  \/ CommitDetailFailure
  \/ CommitDetailSuccess
  \/ AgentNotFound
  \/ StreamOpen
  \/ StreamChunk
  \/ StreamEnd
  \/ StreamFailure

SpecFetch == InitFetch /\ [][NextFetch]_vars

(***************************************************************************)
(* Vocabulary of the properties, stated on the input text and not through  *)
(* the operators of the scan                                               *)
(***************************************************************************)

\* the run has left route-step with a CommitDetail built from a diff text
DiffParsed == commitDetail # None /\ request.repoUrl = None

\* the lines of the parsed text
Lines == diffLines[1]

\* the text t begins with the text w
Begins(t, w) == Len(t) >= Len(w) /\ SubSeq(t, 1, Len(w)) = w

\* the text w is found in t
Within(t, w) == \E i \in 1..Len(t) : i + Len(w) - 1 <= Len(t) /\ SubSeq(t, i, i + Len(w) - 1) = w

\* a line that begins a section: it begins with 'diff --git'
HeaderLine(l) == Begins(l, "diff --git")

\* a line of the form  diff --git a/<old> b/<new>
MarkerForms == {[old |-> old, new |-> new, line |-> MkMarker(old, new)] : old \in Paths, new \in Paths}
GitMarkers == {m.line : m \in MarkerForms}
GitMarker(l) == l \in GitMarkers

\* an added line: first character '+', not the prefix '+++'
PlusLine(l) == Begins(l, "+") /\ ~Begins(l, "+++")

\* a removed line: first character '-', not the prefix '---'
MinusLine(l) == Begins(l, "-") /\ ~Begins(l, "---")

\* position of the i-th marker among the lines ls
MarkerPositions(ls) == {j \in 1..Len(ls) : GitMarker(ls[j])}
NthMarker(ls, i) ==
  CHOOSE j \in MarkerPositions(ls) : Cardinality({k \in MarkerPositions(ls) : k <= j}) = i

\* last line of the section that starts at line j: the line before the next
\* line that begins with 'diff --git', or the last line
SectionEnd(ls, j) ==
  LET later == {k \in (j + 1)..Len(ls) : HeaderLine(ls[k])}
  IN  IF later = {} THEN Len(ls) ELSE Min(later) - 1

CountPlus(ls, from, to) == Cardinality({k \in from..to : PlusLine(ls[k])})
CountMinus(ls, from, to) == Cardinality({k \in from..to : MinusLine(ls[k])})

\* the lines from..to, each followed by one newline
RECURSIVE SectionText(_, _, _)
SectionText(ls, from, to) ==
  IF from > to THEN "" ELSE ls[from] \o "\n" \o SectionText(ls, from + 1, to)

\* the records of the parsed text and the number of its markers
Emitted == commitDetail[1].files
MarkerCount == Cardinality(MarkerPositions(Lines))

\* the lines that belong to the section of some marker
SectionLines ==
  {n \in 1..Len(Lines) :
     \E j \in MarkerPositions(Lines) : j <= n /\ n <= SectionEnd(Lines, j)}

\* no line of the text begins with 'diff --git'
NoHeaderInText(text) ==
  ~Begins(text, "diff --git") /\ ~Within(text, "\ndiff --git")

\* new contains no " b/" that is followed by a further character
Unambiguous(new) ==
  ~\E c \in {"x", "y", "z", "w", "p", "q", " ", "b", "/"} : Within(new, " b/" \o c)

(***************************************************************************)
(* Properties                                                              *)
(***************************************************************************)

\* C1: every CommitDetail route-step produces, on the diff path and on the
\* GitHub path alike, has stats.total = stats.additions + stats.deletions,
\* stats.additions = the sum of files[].additions and stats.deletions = the
\* sum of files[].deletions.
C1_StatsAdditive ==
  commitDetail # None =>
    LET cd == commitDetail[1]
    IN  /\ cd.stats.total = cd.stats.additions + cd.stats.deletions
        /\ cd.stats.additions = SumAdditions(cd.files)
        /\ cd.stats.deletions = SumDeletions(cd.files)

\* C2: a text with k markers 'diff --git a/<old> b/<new>' parses to exactly k
\* records, the i-th one opened by the i-th marker, and the i-th record's
\* additions and deletions are the added and removed lines of its own
\* section (from its marker to the line before the next line that begins
\* with 'diff --git', or to the end) and of no other.
C2_SectionsIndependent ==
  DiffParsed =>
    /\ Len(Emitted) = MarkerCount
    /\ \A i \in 1..MarkerCount :
         LET j == NthMarker(Lines, i)
             e == SectionEnd(Lines, j)
         IN  /\ i <= Len(Emitted)
             /\ Emitted[i].patch # None
             /\ Begins(Emitted[i].patch[1], Lines[j] \o "\n")
             /\ Emitted[i].additions = CountPlus(Lines, j, e)
             /\ Emitted[i].deletions = CountMinus(Lines, j, e)

\* two sections with different counts were parsed
C2_Witness ==
  /\ DiffParsed
  /\ Len(Emitted) = 2
  /\ Emitted[1].additions = 1 /\ Emitted[1].deletions = 0
  /\ Emitted[2].additions = 0 /\ Emitted[2].deletions = 1

\* C3: in an open section, a step of the scan over a line that begins with
\* '+' but not '+++' adds exactly 1 to additions and leaves deletions, a
\* line that begins with '-' but not '---' adds exactly 1 to deletions and
\* leaves additions, and any other line changes neither (a line that begins
\* with 'diff --git' starts its section at 0 and 0).
C3_LineCounting ==
  [][(pc = "scan" /\ idx' = idx + 1 /\ currentFile' # None /\ currentFile' # Some(""))
       => LET l == Lines[idx]
          IN  /\ PlusLine(l) => additions' = additions + 1 /\ deletions' = deletions
              /\ MinusLine(l) => deletions' = deletions + 1 /\ additions' = additions
              /\ (~PlusLine(l) /\ ~MinusLine(l) /\ ~HeaderLine(l))
                   => additions' = additions /\ deletions' = deletions
              /\ HeaderLine(l) => additions' = 0 /\ deletions' = 0]_vars

\* an open section has counted one added and one removed line and has just
\* passed a '+++' line
C3_Witness ==
  /\ pc = "scan"
  /\ idx > 1
  /\ currentFile # None /\ currentFile # Some("")
  /\ Lines[idx - 1] = "+++ b/y"
  /\ additions = 1
  /\ deletions = 1

\* C4: a text in which no line begins with 'diff --git' parses to no file
\* and to additions = deletions = total = 0, whatever '+' and '-' lines it has.
C4_NoMarkerNoFiles ==
  (DiffParsed /\ NoHeaderInText(request.diffContent[1])) =>
    /\ commitDetail[1].files = <<>>
    /\ commitDetail[1].stats = [additions |-> 0, deletions |-> 0, total |-> 0]

\* a text of '+' and '-' lines without any marker was parsed
C4_Witness ==
  /\ DiffParsed
  /\ NoHeaderInText(request.diffContent[1])
  /\ Within(request.diffContent[1], "+a")
  /\ Within(request.diffContent[1], "-b")

\* C5 (as claimed): for every marker line 'diff --git a/<old> b/<new>', for
\* every pair of paths, the record's filename is exactly <new>.
C5_PostImageAlways ==
  DiffParsed =>
    \A i \in 1..Min({Len(Emitted), MarkerCount}) :
      \A m \in MarkerForms :
        Lines[NthMarker(Lines, i)] = m.line => Emitted[i].filename = m.new

\* C5 (amended): for every marker line 'diff --git a/<old> b/<new>' whose
\* <new> contains no " b/" followed by a further character, the record's
\* filename is exactly <new>; <old> and <new> may contain spaces and <old>
\* may contain " b/".
C5_PostImageUnambiguous ==
  DiffParsed =>
    /\ Len(Emitted) = MarkerCount
    /\ \A i \in 1..Min({Len(Emitted), MarkerCount}) :
         \A m \in MarkerForms :
           (Lines[NthMarker(Lines, i)] = m.line /\ Unambiguous(m.new))
             => Emitted[i].filename = m.new

\* a marker whose paths contain a space, and one whose <new> ends in " b/",
\* each gave its <new>
C5_Witness ==
  /\ DiffParsed
  /\ Len(Emitted) = 2
  /\ Lines[1] = MkMarker("p q", "p q") /\ Emitted[1].filename = "p q"
  /\ Lines[2] = MkMarker("x", "w b/") /\ Emitted[2].filename = "w b/"

\* C6: the lines the scan runs over are the text's lines; each record's
\* patch is its section's lines in order, each followed by one newline (the
\* section runs from the marker to the line before the next line that
\* begins with 'diff --git'); lines before the first marker are in no patch
\* and in no counter.
C6_PatchIsSection ==
  DiffParsed =>
    /\ JoinLines(Lines) = request.diffContent[1]
    /\ \A n \in 1..Len(Lines) : ~Within(Lines[n], "\n")
    /\ Len(Emitted) = MarkerCount
    /\ \A i \in 1..Min({Len(Emitted), MarkerCount}) :
         LET j == NthMarker(Lines, i)
         IN  Emitted[i].patch = Some(SectionText(Lines, j, SectionEnd(Lines, j)))
    /\ commitDetail[1].stats.additions = Cardinality({n \in SectionLines : PlusLine(Lines[n])})
    /\ commitDetail[1].stats.deletions = Cardinality({n \in SectionLines : MinusLine(Lines[n])})

\* an added and a removed line precede the only marker, whose section has
\* one line more
C6_Witness ==
  /\ DiffParsed
  /\ Len(Lines) = 4
  /\ PlusLine(Lines[1])
  /\ MinusLine(Lines[2])
  /\ GitMarker(Lines[3])
  /\ Len(Emitted) = 1
  /\ commitDetail[1].stats.total = 0

\* the URL has a match for  github.com/<owner>/<repo> : "github.com/", an
\* owner of at least one character other than '/', a '/', and a character
\* that can begin a repo
HasGithubMatch(url) ==
  \E i \in 1..Len(url), j \in 1..Len(url) :
    /\ i + 10 <= Len(url)
    /\ SubSeq(url, i, i + 10) = "github.com/"
    /\ j >= i + 11
    /\ j + 2 <= Len(url)
    /\ \A n \in (i + 11)..j : SubSeq(url, n, n) # "/"
    /\ SubSeq(url, j + 1, j + 1) = "/"
    /\ SubSeq(url, j + 2, j + 2) \notin {"/", "?", "#"}

\* the URLs of the requests without such a match
UnmatchedUrls == {u \in RepoUrls : ~HasGithubMatch(u)}

\* the repo segment r does not itself end in ".git"
PlainRepo(r) == ~(Len(r) >= 4 /\ SubSeq(r, Len(r) - 3, Len(r)) = ".git")

\* C7: on a diff request the CommitDetail's sha, author and message are the
\* commitSha, author and commitMessage of the request whenever the field is
\* supplied, the sentinels 'direct-diff', 'Unknown' and 'Direct diff review'
\* when it is not, and url is ''.
C7_MetadataOrSentinel ==
  DiffParsed =>
    LET cd == commitDetail[1]
    IN  /\ cd.sha = IF request.commitSha # None THEN request.commitSha[1] ELSE "direct-diff"
        /\ cd.author = IF request.author # None THEN request.author[1] ELSE "Unknown"
        /\ cd.message = IF request.commitMessage # None THEN request.commitMessage[1]
                        ELSE "Direct diff review"
        /\ cd.url = ""

\* C8: the presence of repoUrl alone decides the route: with repoUrl (also
\* next to diffContent) the diff parser never runs and a CommitDetail comes
\* from the two fetches; without repoUrl no HTTP request is issued and a
\* CommitDetail comes from the parser.
C8_RouteByRepoUrl ==
  /\ request.repoUrl # None =>
       /\ diffLines = None /\ idx = 0 /\ files = <<>>
       /\ pc # "scan"
       /\ commitDetail # None => Len(httpLog) = 2
  /\ request.repoUrl = None =>
       /\ httpLog = <<>> /\ latestCommit = None
       /\ pc \notin {"await-commits", "await-detail"}
       /\ commitDetail # None => diffLines # None

\* a request with both repoUrl and diffContent got its CommitDetail from the
\* fetcher
C8_Witness ==
  /\ request.repoUrl # None
  /\ request.diffContent # None
  /\ Within(request.diffContent[1], "diff --git")
  /\ commitDetail # None
  /\ Len(httpLog) = 2

\* C9 (as claimed): for every owner o and repo segment r,
\* https://github.com/o/r.git and https://github.com/o/r both parse to
\* owner o and repo r.
C9_GitSuffixAlways ==
  \A o \in Owners, r \in Repos :
    (pc # "parse-repo-url" /\ request.repoUrl \in {Some(MkUrl(o, r)), Some(MkUrl(o, r) \o ".git")})
      => /\ stepOut # None
         /\ stepOut[1].owner = o
         /\ stepOut[1].repo = r

\* C9 (amended): for every owner o and repo segment r that does not itself
\* end in ".git", https://github.com/o/r.git and https://github.com/o/r both
\* parse to owner o and repo r.
C9_GitSuffixStripped ==
  \A o \in Owners, r \in Repos :
    (/\ PlainRepo(r)
     /\ pc # "parse-repo-url"
     /\ request.repoUrl \in {Some(MkUrl(o, r)), Some(MkUrl(o, r) \o ".git")})
      => /\ stepOut # None
         /\ stepOut[1].owner = o
         /\ stepOut[1].repo = r
         /\ stepOut[1].url = request.repoUrl[1]

\* https://github.com/acme/widgets.git was parsed
C9_Witness ==
  /\ request.repoUrl = Some("https://github.com/acme/widgets.git")
  /\ stepOut # None
  /\ stepOut[1].owner = "acme"
  /\ stepOut[1].repo = "widgets"

\* C10: a repoUrl without a match for github.com/<owner>/<repo> makes the
\* run fail in parse-repo-url with the message
\* 'Invalid GitHub URL format: <the URL>'; no HTTP request is issued and the
\* engine is not called.
C10_InvalidUrlFails ==
  (request.repoUrl # None /\ request.repoUrl[1] \in UnmatchedUrls) =>
    /\ pc \in {"parse-repo-url", "failed"}
    /\ pc = "failed" =>
         /\ error = Some("Invalid GitHub URL format: " \o request.repoUrl[1])
         /\ Within(error[1], request.repoUrl[1])
    /\ stepOut = None
    /\ commitDetail = None
    /\ result = None
    /\ httpLog = <<>>
    /\ engineCalls = 0

\* the run on not-a-github-url has failed
C10_Witness ==
  /\ request.repoUrl = Some("not-a-github-url")
  /\ pc = "failed"
  /\ error # None

\* the answer to the i-th fetch is a response with a non-success status
NonSuccess(i) == i <= Len(responses) /\ ~responses[i].ok /\ responses[i].kind = "status"

\* the message of a remote-fetch error: the fetch wrapper's context
RemoteFetchMessage(m) == Begins(m, "Failed to fetch commit")

\* C11: when the commit-list or the commit-detail call is answered with a
\* non-success status, the run fails with a remote-fetch error whose message
\* carries the status in decimal and the reason text, no CommitDetail and no
\* review is produced, and after a failed commit-list call no commit-detail
\* request is issued and the engine is not called.
C11_FetchFailureFails ==
  \A i \in 1..2 :
    NonSuccess(i) =>
      /\ pc = "failed"
      /\ error # None
      /\ RemoteFetchMessage(error[1])
      /\ Within(error[1], NumToStr(responses[i].status) \o " " \o responses[i].statusText)
      /\ commitDetail = None
      /\ result = None
      /\ engineCalls = 0
      /\ i = 1 => Len(httpLog) = 1

\* the commit-list call was answered 404 Not Found
C11_Witness ==
  /\ Len(responses) = 1
  /\ responses[1].status = 404
  /\ pc = "failed"
  /\ Within(error[1], "404 Not Found")

\* the commit-list call was answered with a success response whose list is
\* empty
EmptyListAnswer == Len(responses) >= 1 /\ responses[1].ok /\ responses[1].body = <<>>

\* C12: when the commit-list call succeeds with an empty list, the run
\* fails with an error that is no remote-fetch error (its message does not
\* carry the fetch wrapper's context), and no commit-detail request is
\* issued.
C12_EmptyListMissingData ==
  EmptyListAnswer =>
    /\ pc = "failed"
    /\ error # None
    /\ ~RemoteFetchMessage(error[1])
    /\ Len(httpLog) = 1
    /\ commitDetail = None

\* the step a position of the run belongs to: 1 parse-repo-url, 2 route-step,
\* 3 generate-code-review, 4 after the last step
StepNo(at) ==
  CASE at = "parse-repo-url" -> 1
    [] at \in {"route-step", "scan", "await-commits", "await-detail"} -> 2
    [] at \in {"generate-code-review", "stream"} -> 3
    [] at = "done" -> 4
    [] OTHER -> 0

\* the fields of a full CommitDetail
CommitDetailFields == {"sha", "message", "author", "date", "url", "stats", "files"}

\* C13: the run moves through parse-repo-url, route-step and
\* generate-code-review in that order, never back and never skipping one;
\* route-step starts only with the output of parse-repo-url and
\* generate-code-review only with the CommitDetail of route-step and with no
\* error raised; after a step has raised nothing runs any more; and a
\* {review} result exists only at the end of a run in which no step raised
\* and a CommitDetail with all its fields was produced.
C13_StepsInOrder ==
  [][/\ pc # "failed"
     /\ pc' # "failed" =>
          /\ StepNo(pc') \in {StepNo(pc), StepNo(pc) + 1}
          /\ error' = None
     /\ pc' = "failed" => error' # None /\ result' = None
     /\ StepNo(pc') >= 2 => stepOut' # None
     /\ StepNo(pc') >= 3 =>
          /\ commitDetail' # None
          /\ DOMAIN commitDetail'[1] = CommitDetailFields
     /\ StepNo(pc') \in {1, 2} => commitDetail' = None /\ engineCalls' = 0
     /\ StepNo(pc') = 1 => stepOut' = None /\ httpLog' = <<>> /\ diffLines' = None
     /\ result' # None <=> pc' = "done"]_vars

\* a repoUrl run went through all three steps and returned a review
C13_Witness ==
  /\ pc = "done"
  /\ request.repoUrl # None
  /\ stepOut # None
  /\ Len(responses) = 2
  /\ commitDetail # None
  /\ result # None
  /\ error = None

\* f1 ++ ... ++ fn, in the order of the sequence
RECURSIVE Concat(_)
Concat(fs) == IF fs = <<>> THEN "" ELSE Head(fs) \o Concat(Tail(fs))

\* C14: at every point of the consumption the text written to standard
\* output equals the accumulator, and both are the concatenation, in
\* arrival order, of the fragments received so far; when the stream has
\* ended normally the returned review is that concatenation of all the
\* fragments.
C14_ReviewIsConcatenation ==
  /\ stdout = reviewText
  /\ reviewText = Concat(received)
  /\ result # None => result[1] = [review |-> Concat(received)]
  /\ pc = "done" => result # None

\* the stream yielded "a" and then "b" and ended: the review is "ab"
C14_Witness ==
  /\ pc = "done"
  /\ received = <<"a", "b">>
  /\ result = Some([review |-> "ab"])
  /\ stdout = "ab"

\* the engine's stream has thrown
StreamThrew == failedIn = Some("stream")

\* C15: when the engine's stream throws, after any number of fragments, the
\* run ends failed with an error and without a {review} result: what was
\* accumulated is not returned.
C15_StreamFailureNoReview ==
  StreamThrew =>
    /\ pc = "failed"
    /\ error # None
    /\ result = None

\* the stream threw after the fragment "a" had been accumulated
C15_Witness ==
  /\ StreamThrew
  /\ received = <<"a">>
  /\ reviewText = "a"
  /\ pc = "failed"
  /\ result = None

\* the address of a commit-list request ends in this
ListSuffix == "/commits?per_page=5"

\* the address u without its last n characters
DropLast(u, n) == IF Len(u) >= n THEN SubSeq(u, 1, Len(u) - n) ELSE ""

\* C16: in both versions of the workflow a request is issued only when
\* every earlier one has been answered, so the two GETs are never in flight
\* together; the first request is the commit-list GET; the second is issued
\* only after the first was answered with a success response, and it is the
\* commit-detail GET at the owner and repo of the first request and the sha
\* of the first element of the list that response carried.
C16_DetailAfterList ==
  [][/\ Len(httpLog') - Len(responses') \in {0, 1}
     /\ Len(httpLog') <= 2
     /\ httpLog' # httpLog =>
          /\ httpLog' = Append(httpLog, httpLog'[Len(httpLog')])
          /\ Len(responses') = Len(httpLog)
          /\ Len(httpLog') = 1 =>
               /\ Begins(httpLog'[1], "https://api.github.com/repos/")
               /\ DropLast(httpLog'[1], Len(ListSuffix)) \o ListSuffix = httpLog'[1]
          /\ Len(httpLog') = 2 =>
               /\ responses'[1].ok
               /\ responses'[1].body # <<>>
               /\ httpLog'[2] = DropLast(httpLog'[1], Len(ListSuffix)) \o "/commits/"
                                  \o responses'[1].body[1].sha]_vars

\* the version that splits the commit's url asked for the detail of s2, the
\* first of the commits s2, s1 of acme/a.b
C16_Witness ==
  /\ pc = "await-commit-detail"
  /\ httpLog = <<"https://api.github.com/repos/acme/a.b/commits?per_page=5",
                 "https://api.github.com/repos/acme/a.b/commits/s2">>
  /\ Len(responses) = 1
  /\ Len(responses[1].body) = 2
  /\ responses[1].body[2].sha = "s1"

\* the address u goes to the commit-list endpoint, to the commit-detail
\* endpoint
ListAddress(u) == DropLast(u, Len(ListSuffix)) \o ListSuffix = u
DetailAddress(u) == Within(u, "/commits/")

\* the requests of the run to the two endpoints
ListRequests == {i \in 1..Len(httpLog) : ListAddress(httpLog[i])}
DetailRequests == {i \in 1..Len(httpLog) : DetailAddress(httpLog[i])}

FetchCause ==
  LET r == responses[Len(responses)]
  IN  IF r.kind = "reject" THEN r.statusText
      ELSE IF r.kind = "status" THEN "GitHub API error: " \o NumToStr(r.status) \o " " \o r.statusText
      ELSE "Cannot read properties of undefined (reading 'sha')"

\* the message m is '<context>: <cause>' with a context that is not empty
Wraps(m, cause) ==
  /\ Len(m) > Len(cause) + 2
  /\ DropLast(m, Len(cause) + 2) \o ": " \o cause = m

\* the context of the message m that wraps cause
ContextOf(m, cause) == DropLast(m, Len(cause) + 2)

\* C18: the error of a failed run is '<stage context>: <cause message>':
\* for a failure of parse-repo-url the context is the invalid-URL text, for a
\* failed commit-list call the context names the commits and not the commit
\* detail, for a failed commit-detail call it names the commit detail, and
\* for a throw of the engine's stream the engine's message is wrapped in a
\* context as well.
C18_ErrorsWrapped ==
  pc = "failed" =>
    /\ failedIn = Some("parse-repo-url") =>
         Wraps(error[1], request.repoUrl[1])
    /\ failedIn = Some("commit-list") =>
         /\ Wraps(error[1], FetchCause)
         /\ Within(ContextOf(error[1], FetchCause), "commits")
         /\ ~Within(ContextOf(error[1], FetchCause), "detail")
    /\ failedIn = Some("commit-detail") =>
         /\ Wraps(error[1], FetchCause)
         /\ Within(ContextOf(error[1], FetchCause), "detail")
    /\ failedIn = Some("stream") =>
         \E e \in EngineErrors : Wraps(error[1], e)

\* the run is over: it returned a review or it raised an error
Finished ==
  \/ pc = "done" /\ result # None /\ error = None
  \/ pc = "failed" /\ error # None /\ result = None

\* C19: when every HTTP call is answered or fails and the engine's stream
\* yields finitely many fragments and then ends or throws, every run
\* eventually is over, with a review or with an error, and stays so.
C19_Terminates == <>[]Finished

\* a repoUrl run is over after both fetches and a stream of MaxFragments
\* fragments
C19_Witness ==
  /\ Finished
  /\ pc = "done"
  /\ Len(responses) = 2
  /\ Len(received) = MaxFragments

\* the lines of the parsed text that begin with 'diff --git'
HeaderPositions == {j \in 1..Len(Lines) : HeaderLine(Lines[j])}

\* the patches of the records fs, one after the other
RECURSIVE PatchesOf(_)
PatchesOf(fs) == IF fs = <<>> THEN "" ELSE Head(fs).patch[1] \o PatchesOf(Tail(fs))

\* C20: the parser emits as many records as the text has lines that begin
\* with 'diff --git', and the patches of the records, one after the other,
\* are the lines of the text from the first such line to the last line, each
\* line once and in order: no section is dropped.
C20_EverySectionEmitted ==
  DiffParsed =>
    /\ Len(Emitted) = Cardinality(HeaderPositions)
    /\ PatchesOf(Emitted) =
         IF HeaderPositions = {} THEN ""
         ELSE SectionText(Lines, Min(HeaderPositions), Len(Lines))

\* what the parse-repo-url step of the workflow makes of url: it throws, or
\* it returns owner and repo
StepParse(url) ==
  LET r == OwnerRepo(url)
  IN  [threw |-> InvalidOwnerRepo(r), owner |-> r.owner, repo |-> r.repo]

\* a step in which parseRepoUrlTool was executed: the agent was found
ToolExecuted == ParseRepoUrlDelegated /\ failedIn' # Some("agent")

\* C21: parseRepoUrlTool and the workflow's parse-repo-url step are
\* equivalent on every URL: the tool throws exactly when the step throws,
\* and when they succeed they return the same owner and repo, both of them
\* non-empty.
C21_ToolEquivalentToStep ==
  [][ToolExecuted =>
       LET step == StepParse(request.repoUrl[1])
       IN  /\ (pc' = "failed") <=> step.threw
           /\ pc' # "failed" =>
                /\ stepOut'[1].owner = step.owner
                /\ stepOut'[1].repo = step.repo
                /\ stepOut'[1].owner # ""
                /\ stepOut'[1].repo # ""]_vars

\* the first hunk header among the lines from..to, or to + 1 without one
FirstHunk(ls, from, to) ==
  LET hunks == {k \in from..to : Begins(ls[k], "@@")}
  IN  IF hunks = {} THEN to + 1 ELSE Min(hunks)

\* a section of a unified diff: the header line, the '--- ' and '+++ ' file
\* lines, a hunk header, and at least one line, each of them added ('+'),
\* removed ('-') or context (' ')
WellFormedSection(ls, from, to) ==
  /\ to >= from + 4
  /\ Begins(ls[from + 1], "--- ")
  /\ Begins(ls[from + 2], "+++ ")
  /\ Begins(ls[from + 3], "@@")
  /\ \A k \in (from + 4)..to : \E c \in {"+", "-", " "} : Begins(ls[k], c)

\* a well-formed unified diff: it begins with a header line, every line that
\* begins with 'diff --git' is a marker, and every section is well formed
WellFormed(ls) ==
  /\ Len(ls) > 0
  /\ GitMarker(ls[1])
  /\ \A k \in 1..Len(ls) : HeaderLine(ls[k]) => GitMarker(ls[k])
  /\ \A j \in MarkerPositions(ls) : WellFormedSection(ls, j, SectionEnd(ls, j))

\* the added lines among from..to: first character '+', except the '+++ '
\* file line, which stands before the first hunk
AddedLines(ls, from, to) ==
  {k \in from..to :
     Begins(ls[k], "+") /\ ~(k < FirstHunk(ls, from, to) /\ Begins(ls[k], "+++ "))}

\* the removed lines among from..to: first character '-', except the '--- '
\* file line, which stands before the first hunk
RemovedLines(ls, from, to) ==
  {k \in from..to :
     Begins(ls[k], "-") /\ ~(k < FirstHunk(ls, from, to) /\ Begins(ls[k], "--- "))}

\* C22: for every well-formed unified diff, each record's additions is the
\* number of added lines of its file's hunks (first character '+', only the
\* '+++ ' file line excepted) and its deletions the number of removed lines
\* (first character '-', only the '--- ' file line excepted), whatever the
\* content of the lines, content that begins with '++' or '--' included.
C22_CountsEveryHunkLine ==
  (DiffParsed /\ WellFormed(Lines)) =>
    /\ Len(Emitted) = MarkerCount
    /\ \A i \in 1..MarkerCount :
         LET j == NthMarker(Lines, i)
             e == SectionEnd(Lines, j)
         IN  /\ Emitted[i].additions = Cardinality(AddedLines(Lines, j, e))
             /\ Emitted[i].deletions = Cardinality(RemovedLines(Lines, j, e))

====
